---------------------------- MODULE Spec2Model ----------------------------
(***************************************************************************)
(* Model of the OCR web service of src/app.py: the two POST handlers       *)
(* ocr_pdf and ocr_image, the helpers they call (allowed_file,             *)
(* is_http_url, is_safe_path, SimpleOCR.pdf_to_text, image_to_text) and    *)
(* the part of the filesystem they touch.                                  *)
(*                                                                         *)
(* Strings are sequences of one-character strings, so that lower(),        *)
(* strip(), endswith(), rsplit(), startswith() and int() are computed the  *)
(* way Python computes them.  A path is a sequence of components, each a   *)
(* string.  An optional value (Python's None or a value) is a set with at  *)
(* most one element.                                                       *)
(***************************************************************************)
EXTENDS Integers, Sequences, FiniteSets, TLC

(***************************************************************************)
(* Strings                                                                 *)
(***************************************************************************)

None == {}

Some(x) == {x}

The(s) == CHOOSE x \in s : TRUE

Min(a, b) == IF a <= b THEN a ELSE b

Max(a, b) == IF a >= b THEN a ELSE b

\* str.lower(), on the letters the inputs use
LowerChar(c) ==
    CASE c = "P" -> "p" [] c = "D" -> "d" [] c = "F" -> "f"
      [] c = "N" -> "n" [] c = "G" -> "g" [] c = "J" -> "j"
      [] c = "E" -> "e" [] c = "H" -> "h" [] c = "T" -> "t"
      [] c = "S" -> "s"
      [] OTHER -> c

Lower(s) == [i \in DOMAIN s |-> LowerChar(s[i])]

StartsWith(s, p) == Len(p) <= Len(s) /\ SubSeq(s, 1, Len(p)) = p

EndsWith(s, p) ==
    Len(p) <= Len(s) /\ SubSeq(s, Len(s) - Len(p) + 1, Len(s)) = p

Contains(s, c) == \E i \in DOMAIN s : s[i] = c

\* index of the first / last occurrence of character c in s, 0 when absent
IndexOf(s, c) ==
    IF Contains(s, c)
    THEN CHOOSE i \in DOMAIN s : s[i] = c /\ \A j \in 1..(i - 1) : s[j] # c
    ELSE 0

LastIndexOf(s, c) ==
    IF Contains(s, c)
    THEN CHOOSE i \in DOMAIN s : s[i] = c /\ \A j \in (i + 1)..Len(s) : s[j] # c
    ELSE 0

\* str.strip(): leading and trailing blanks removed
RECURSIVE LStrip(_)
LStrip(s) == IF s # <<>> /\ Head(s) = " " THEN LStrip(Tail(s)) ELSE s

RECURSIVE RStrip(_)
RStrip(s) ==
    IF s # <<>> /\ s[Len(s)] = " " THEN RStrip(SubSeq(s, 1, Len(s) - 1)) ELSE s

Strip(s) == RStrip(LStrip(s))

(***************************************************************************)
(* Request parameters: max_pages and dpi (ocr_pdf, lines 196-203)          *)
(***************************************************************************)

DEFAULT_MAX_PAGES == 10

DEFAULT_DPI == 200

MAX_PAGES_CAP == 20

DPI_CAP == 300

Digits == {"0", "1", "2", "3", "4", "5", "6", "7", "8", "9"}

DigitVal(c) ==
    CASE c = "0" -> 0 [] c = "1" -> 1 [] c = "2" -> 2 [] c = "3" -> 3
      [] c = "4" -> 4 [] c = "5" -> 5 [] c = "6" -> 6 [] c = "7" -> 7
      [] c = "8" -> 8 [] c = "9" -> 9

RECURSIVE DecVal(_)
DecVal(ds) ==
    IF ds = <<>> THEN 0
    ELSE 10 * DecVal(SubSeq(ds, 1, Len(ds) - 1)) + DigitVal(ds[Len(ds)])

\* int(str): blanks stripped, an optional sign, then decimal digits only
IntOfStr(s) ==
    LET u  == Strip(s)
        sg == u # <<>> /\ u[1] \in {"-", "+"}
        ds == IF sg THEN Tail(u) ELSE u
    IN  IF ds # <<>> /\ \A i \in DOMAIN ds : ds[i] \in Digits
        THEN [ok |-> TRUE,
              v  |-> IF sg /\ u[1] = "-" THEN 0 - DecVal(ds) ELSE DecVal(ds)]
        ELSE [ok |-> FALSE, v |-> 0]

\* A raw field of the payload: absent, a JSON integer, a JSON float (its
\* whole part kept in v), JSON null, or a string (every form field is one).
RawMissing == [kind |-> "missing", v |-> 0, s |-> <<>>]

RawInt(n) == [kind |-> "int", v |-> n, s |-> <<>>]

RawFloat(whole) == [kind |-> "float", v |-> whole, s |-> <<>>]

RawNull == [kind |-> "null", v |-> 0, s |-> <<>>]

RawStr(chars) == [kind |-> "str", v |-> 0, s |-> chars]

\* int(payload.get(key, default)): the value, or the exception int() raises
IntParam(raw, default) ==
    CASE raw.kind = "missing" -> [ok |-> TRUE, v |-> default]
      [] raw.kind = "int"     -> [ok |-> TRUE, v |-> raw.v]
      [] raw.kind = "float"   -> [ok |-> TRUE, v |-> raw.v]
      [] raw.kind = "null"    -> [ok |-> FALSE, v |-> 0]
      [] raw.kind = "str"     -> IntOfStr(raw.s)

\* a variant: the cap of max_pages set at 25
ClampMaxPagesAt25(v) == Min(v, 25)

\* max_pages = min(max_pages, 20)
ClampMaxPages(v) == Min(v, MAX_PAGES_CAP)

\* dpi = min(dpi, 300)
ClampDpi(v) == Min(v, DPI_CAP)


(***************************************************************************)
(* Filenames and URLs: allowed_file, is_http_url                           *)
(***************************************************************************)

STR_pdf == <<"p", "d", "f">>

STR_png == <<"p", "n", "g">>

STR_jpg == <<"j", "p", "g">>

STR_jpeg == <<"j", "p", "e", "g">>

STR_http == <<"h", "t", "t", "p">>

STR_https == <<"h", "t", "t", "p", "s">>

\* '.pdf', the suffix ocr_pdf requires
DOT_PDF == <<".", "p", "d", "f">>

\* ALLOWED_EXTENSIONS = {'pdf', 'png', 'jpg', 'jpeg'}
ALLOWED_EXTENSIONS == {STR_pdf, STR_png, STR_jpg, STR_jpeg}

\* filename.rsplit('.', 1)[1], for a filename that holds a '.'
RSplitExt(filename) ==
    SubSeq(filename, LastIndexOf(filename, ".") + 1, Len(filename))

\* '.' in filename and filename.rsplit('.', 1)[1].lower() in ALLOWED_EXTENSIONS
allowed_file(filename) ==
    Contains(filename, ".") /\ Lower(RSplitExt(filename)) \in ALLOWED_EXTENSIONS

\* file.filename.lower().endswith('.pdf')
IsPdfFilename(filename) == EndsWith(Lower(filename), DOT_PDF)

Letters ==
    {"a", "d", "e", "f", "g", "h", "j", "n", "p", "s", "t", "x",
     "D", "E", "F", "G", "H", "J", "N", "P", "S", "T"}

SchemeChars == Letters \cup Digits \cup {"+", "-", "."}

\* urlparse(s).scheme: the text before the first ':', lowered, when it starts
\* with a letter and holds scheme characters only; '' otherwise
UrlScheme(s) ==
    LET i == IndexOf(s, ":")
    IN  IF i > 1 /\ s[1] \in Letters /\ \A j \in 1..(i - 1) : s[j] \in SchemeChars
        THEN Lower(SubSeq(s, 1, i - 1))
        ELSE <<>>

\* u.scheme in ("http", "https")
is_http_url(s) == UrlScheme(s) \in {STR_http, STR_https}

(***************************************************************************)
(* Paths: pathlib.Path and is_safe_path                                    *)
(***************************************************************************)

STR_srv == <<"s", "r", "v">>

STR_app == <<"a", "p", "p">>

STR_app2 == <<"a", "p", "p", "2">>

STR_etc == <<"e", "t", "c">>

STR_tmp == <<"t", "m", "p">>

STR_a_pdf == <<"a", ".", "p", "d", "f">>

STR_s_pdf == <<"s", ".", "p", "d", "f">>

STR_n_txt == <<"n", ".", "t", "x", "t">>

STR_t_pdf == <<"t", ".", "p", "d", "f">>

STR_t_png == <<"t", ".", "p", "n", "g">>

DOTDOT == <<".", ".">>

\* SAFE_BASE_DIR = Path(__file__).parent.resolve(): here /srv/app
SAFE_BASE_DIR == <<STR_srv, STR_app>>

\* the directories and the files that exist before the request
Dirs == {<<>>, <<STR_srv>>, <<STR_srv, STR_app>>, <<STR_srv, STR_app2>>,
         <<STR_etc>>, <<STR_tmp>>}

LocalFiles ==
    {<<STR_srv, STR_app, STR_a_pdf>>, <<STR_srv, STR_app, STR_n_txt>>,
     <<STR_srv, STR_s_pdf>>, <<STR_srv, STR_app2, STR_s_pdf>>,
     <<STR_etc, STR_s_pdf>>}

\* the name tempfile.NamedTemporaryFile(delete=False, suffix=...) picks
TmpPdf == <<STR_tmp, STR_t_pdf>>

TmpImage == <<STR_tmp, STR_t_png>>

TmpFiles == {TmpPdf, TmpImage}

\* Path(s).parts without the root: s split at '/', empty and '.' parts dropped
RECURSIVE SplitPath(_)
SplitPath(s) ==
    LET i    == IndexOf(s, "/")
        head == IF i = 0 THEN s ELSE SubSeq(s, 1, i - 1)
        rest == IF i = 0 THEN <<>> ELSE SplitPath(SubSeq(s, i + 1, Len(s)))
    IN  IF s = <<>> THEN <<>>
        ELSE IF head = <<>> \/ head = <<".">> THEN rest
        ELSE <<head>> \o rest

\* Path.is_absolute()
IsAbsolute(s) == s # <<>> /\ s[1] = "/"

\* Path.resolve() of an absolute path (no symbolic links): '..' removed
RECURSIVE ResolveFrom(_, _)
ResolveFrom(cur, rest) ==
    IF rest = <<>> THEN cur
    ELSE IF Head(rest) = DOTDOT
         THEN ResolveFrom(IF cur = <<>> THEN cur ELSE SubSeq(cur, 1, Len(cur) - 1),
                          Tail(rest))
         ELSE ResolveFrom(Append(cur, Head(rest)), Tail(rest))

Resolve(parts) == ResolveFrom(<<>>, parts)

\* str(path) of an absolute path
RECURSIVE PathStr(_)
PathStr(parts) ==
    IF parts = <<>> THEN <<"/">>
    ELSE IF Len(parts) = 1 THEN <<"/">> \o parts[1]
    ELSE PathStr(SubSeq(parts, 1, Len(parts) - 1)) \o <<"/">> \o parts[Len(parts)]

\* Path.suffix: the last component from its last '.', when that '.' is neither
\* its first nor its last character
Suffix(parts) ==
    LET name == IF parts = <<>> THEN <<>> ELSE parts[Len(parts)]
        i    == LastIndexOf(name, ".")
    IN  IF 1 < i /\ i < Len(name) THEN SubSeq(name, i, Len(name)) ELSE <<>>

\* PurePath.is_relative_to: base's components are a prefix of the path's
IsRelativeTo(path, base) ==
    Len(base) <= Len(path) /\ SubSeq(path, 1, Len(base)) = base

\* is_safe_path: Path.is_relative_to where Python has it (3.9 and later), the
\* comparison of the two strings in the AttributeError handler where not
is_safe_path(base_dir, user_path, hasIsRelativeTo) ==
    IF hasIsRelativeTo
    THEN IsRelativeTo(Resolve(user_path), Resolve(base_dir))
    ELSE StartsWith(PathStr(Resolve(user_path)), PathStr(Resolve(base_dir)))

\* Path.exists(): the operating system walks the path, so every directory
\* named on the way has to exist
RECURSIVE WalkOk(_, _)
WalkOk(cur, rest) ==
    IF rest = <<>> THEN TRUE
    ELSE IF Head(rest) = DOTDOT
         THEN WalkOk(IF cur = <<>> THEN cur ELSE SubSeq(cur, 1, Len(cur) - 1),
                     Tail(rest))
         ELSE /\ Tail(rest) # <<>> => Append(cur, Head(rest)) \in Dirs
              /\ WalkOk(Append(cur, Head(rest)), Tail(rest))

Exists(parts, files) == WalkOk(<<>>, parts) /\ Resolve(parts) \in files \cup Dirs

\* user_path as ocr_pdf builds it from the stripped pdf_path (lines 245-250)
UserPath(raw) ==
    LET s == Strip(raw)
    IN  IF IsAbsolute(s) THEN SplitPath(s)
        ELSE Resolve(SAFE_BASE_DIR \o SplitPath(s))

(***************************************************************************)
(* SimpleOCR: pdf_to_text and image_to_text                                *)
(*                                                                         *)
(* A document is the sequence of the texts pytesseract reads off its       *)
(* pages.  convert_from_path and image_to_string come from libraries; each *)
(* either raises or returns, and which it does is the caller's input.      *)
(***************************************************************************)

\* "\n\n--- Page Break ---\n\n"
PAGE_BREAK == <<"\n", "\n", "-", "-", "-", " ", "P", "a", "g", "e", " ", "B", "r", "e", "a", "k", " ", "-", "-", "-", "\n", "\n">>

\* a variant: the page texts joined with no separator
RECURSIVE JoinConcat(_)
JoinConcat(texts) ==
    IF texts = <<>> THEN <<>> ELSE Head(texts) \o JoinConcat(Tail(texts))

\* "\n\n--- Page Break ---\n\n".join(all_text)
RECURSIVE JoinPages(_)
JoinPages(texts) ==
    IF texts = <<>> THEN <<>>
    ELSE IF Len(texts) = 1 THEN texts[1]
    ELSE texts[1] \o PAGE_BREAK \o JoinPages(Tail(texts))

\* convert_from_path(pdf_path, dpi=dpi, first_page=1, last_page=max_pages):
\* the pages from the first to last_page, as many as the document has
convert_from_path(document, last_page) ==
    SubSeq(document, 1, Max(0, Min(Len(document), last_page)))

\* a variant: truncated only when more pages than max_pages were rendered
WasTruncatedStrict(num_pages, max_pages) == num_pages > max_pages

\* was_truncated = num_pages >= max_pages
WasTruncated(num_pages, max_pages) == num_pages >= max_pages

\* the dictionary of the except branch (lines 96-103)
ExtractionFailure(message) ==
    [success |-> FALSE, error |-> Some(message), text |-> None,
     num_pages |-> 0, was_truncated |-> FALSE]

\* pdf_to_text (lines 70-103).  renderOk: convert_from_path returns;
\* ocrOk: image_to_string returns for every page.
pdf_to_text(document, maxPages, renderOk, ocrOk) ==
    LET images == convert_from_path(document, maxPages)
    IN  IF ~renderOk THEN ExtractionFailure("convert_from_path raised")
        ELSE IF images # <<>> /\ ~ocrOk
             THEN ExtractionFailure("image_to_string raised")
        ELSE [success |-> TRUE, error |-> None, text |-> Some(JoinPages(images)),
              num_pages |-> Len(images),
              was_truncated |-> WasTruncated(Len(images), maxPages)]

\* image_to_text (lines 107-121).  openOk: Image.open returns
image_to_text(document, openOk, ocrOk) ==
    IF ~openOk THEN [success |-> FALSE, text |-> None,
                     error |-> Some("Image.open raised")]
    ELSE IF ~ocrOk THEN [success |-> FALSE, text |-> None,
                         error |-> Some("image_to_string raised")]
    ELSE [success |-> TRUE, text |-> Some(document[1]), error |-> None]

NoResult == [none |-> TRUE]

(***************************************************************************)
(* The requests                                                            *)
(***************************************************************************)

\* filenames of the file part sent to /ocr/pdf ('' is an unnamed part)
PdfFilenames ==
    { <<>>,   \* ''
      <<"a", ".", "p", "d", "f">>,   \* 'a.pdf'
      <<"a", ".", "P", "D", "F">>,   \* 'a.PDF'
      <<"a", ".", "t", "x", "t">>,   \* 'a.txt'
      <<"a", "p", "d", "f">> }   \* 'apdf'

\* filenames of the file part sent to /ocr/image
ImageFilenames ==
    { <<>>,   \* ''
      <<"a", ".", "p", "n", "g">>,   \* 'a.png'
      <<"a", ".", "P", "N", "G">>,   \* 'a.PNG'
      <<"a", ".", "j", "p", "g">>,   \* 'a.jpg'
      <<"a", ".", "J", "P", "E", "G">>,   \* 'a.JPEG'
      <<"a", ".", "p", "d", "f">>,   \* 'a.pdf'
      <<"a", ".", "t", "x", "t">>,   \* 'a.txt'
      <<"p", "n", "g">>,   \* 'png'
      <<"a", ".", "p", "n", "g", ".", "t", "x", "t">>,   \* 'a.png.txt'
      <<"a", ".", "t", "x", "t", ".", "j", "p", "g">> }   \* 'a.txt.jpg'

\* file_url values
FileUrls ==
    { <<>>,   \* ''
      <<"f", "t", "p", ":", "/", "/", "h", "/", "f", ".", "p", "d", "f">>,   \* 'ftp://h/f.pdf'
      <<"h", "t", "t", "p", ":", "/", "/", "h", "/", "f", ".", "p", "d", "f">>,   \* 'http://h/f.pdf'
      <<"H", "T", "T", "P", "S", ":", "/", "/", "h", "/", "f">>,   \* 'HTTPS://h/f'
      <<" ", "h", "t", "t", "p", ":", "/", "/", "h", "/", "f", ".", "P", "D", "F", " ">>,   \* ' http://h/f.PDF '
      <<"h", "/", "f", ".", "p", "d", "f">> }   \* 'h/f.pdf'

\* pdf_path values
PdfPaths ==
    { <<>>,   \* ''
      <<"a", ".", "p", "d", "f">>,   \* 'a.pdf'
      <<"m", ".", "p", "d", "f">>,   \* 'm.pdf'
      <<".", ".", "/", "s", ".", "p", "d", "f">>,   \* '../s.pdf'
      <<".", ".", "/", "a", "p", "p", "/", "a", ".", "p", "d", "f">>,   \* '../app/a.pdf'
      <<"/", "s", "r", "v", "/", "a", "p", "p", "/", "a", ".", "p", "d", "f">>,   \* '/srv/app/a.pdf'
      <<"/", "s", "r", "v", "/", "a", "p", "p", "2", "/", "s", ".", "p", "d", "f">>,   \* '/srv/app2/s.pdf'
      <<"/", "e", "t", "c", "/", "s", ".", "p", "d", "f">>,   \* '/etc/s.pdf'
      <<"n", ".", "t", "x", "t">>,   \* 'n.txt'
      <<"/", "s", "r", "v", "/", "a", "p", "p", "/", ".", ".", "/", "s", ".", "p", "d", "f">>,   \* '/srv/app/../s.pdf'
      <<" ", "a", ".", "p", "d", "f", " ">> }   \* ' a.pdf '

TXT_w == <<"w">>

\* a page that ends in the break line, and one that starts with it
TXT_head == <<"\n", "\n", "-", "-", "-", " ", "P", "a", "g", "e", " ", "B", "r", "e", "a", "k", " ", "-", "-", "-">>

TXT_tail == <<"-", "-", "-", " ", "P", "a", "g", "e", " ", "B", "r", "e", "a", "k", " ", "-", "-", "-", "\n", "\n">>

\* the largest number of pages of a document whose pages differ
MaxDocPages == 3

\* the largest max_pages a request carries as an integer
MaxPagesIn == 22

PageTexts == {<<>>, TXT_w, TXT_head, TXT_tail}

PlainPage == TXT_w

PlainDoc(k) == [i \in 1..k |-> PlainPage]

\* documents of plain pages: short ones, and ones around the cap of 20 pages
PlainDocs ==
    {PlainDoc(k) : k \in (1..MaxDocPages) \cup
                         ((MAX_PAGES_CAP - 1)..(MAX_PAGES_CAP + 2))}

Docs == UNION {[1..k -> PageTexts] : k \in 1..MaxDocPages}

NoRequest ==
    [file |-> None, file_url |-> None, pdf_path |-> None,
     max_pages |-> RawMissing, dpi |-> RawMissing]

Opt(S) == {None} \cup {Some(x) : x \in S}

\* max_pages and dpi as a client may send them: absent, integers, a float,
\* null, and strings that are or are not decimal numbers
RawMaxPages ==
    {RawMissing, RawInt(1), RawInt(25), RawStr(<<"2">>), RawStr(<<"a", "b">>),
     RawFloat(2), RawNull}

RawDpis == {RawMissing, RawInt(600), RawStr(<<"1", "5", "0">>), RawStr(<<"x">>)}

\* the requests to /ocr/pdf that vary the three sources
PdfRequests ==
    {r \in [file : Opt(PdfFilenames), file_url : Opt(FileUrls),
            pdf_path : Opt(PdfPaths), max_pages : RawMaxPages, dpi : RawDpis] :
        \* a parameter that does not parse is sent with default companions
        /\ r.dpi.kind = "str" => r.max_pages = RawMissing
        /\ r.max_pages.kind \in {"float", "null", "str"} => r.dpi = RawMissing}

\* the requests to /ocr/image
ImageRequests ==
    {[NoRequest EXCEPT !.file = f] : f \in Opt(ImageFilenames)}

GoodName == <<"a", ".", "p", "d", "f">>

GoodUrl == <<"h", "t", "t", "p", ":", "/", "/", "h", "/", "f", ".", "p", "d", "f">>

GoodPath == <<"a", ".", "p", "d", "f">>

\* the requests to /ocr/pdf that vary max_pages and dpi over the integers,
\* with one well-formed source of each kind, or none
IntMaxPages == {RawInt(n) : n \in (0 - 2)..MaxPagesIn}

IntDpis == {RawInt(n) : n \in {0 - 1, 0, 72, 300, 301, 600}}

GoodSources ==
    {[NoRequest EXCEPT !.file = Some(GoodName)],
     [NoRequest EXCEPT !.file_url = Some(GoodUrl)],
     [NoRequest EXCEPT !.pdf_path = Some(GoodPath)],
     NoRequest}

PagesRequests ==
    {[r EXCEPT !.max_pages = m, !.dpi = d] :
        r \in GoodSources, m \in IntMaxPages \cup {RawMissing},
        d \in IntDpis \cup {RawMissing}}

(***************************************************************************)
(* The handlers                                                            *)
(***************************************************************************)

VARIABLES
    hasIsRelativeTo,    \* the interpreter has Path.is_relative_to (3.9+)
    pc,                 \* where the handler is
    endpoint,           \* "pdf" or "image"
    req,                \* the request: file part, file_url, pdf_path, max_pages, dpi
    doc,                \* the pages of the document the request's source holds
    max_pages, dpi,     \* the locals of ocr_pdf, after int() and the caps
    tmp_path,           \* None or the path handed to the extractor
    should_delete_tmp,
    source,
    exc,                \* str(e) of the exception on its way to the handler's except
    result,             \* what pdf_to_text or image_to_text returned
    response,           \* the status and the JSON body returned
    fs,                 \* the files that exist
    extractCalls,       \* the calls of pdf_to_text and image_to_text, in order
    unlinkCalls,        \* the paths os.unlink was called on, in order
    fetched,            \* the URLs requests.get was called on, in order
    touched             \* the inputs the handler validated, fetched or read

vars ==
    <<hasIsRelativeTo, pc, endpoint, req, doc, max_pages, dpi, tmp_path,
      should_delete_tmp, source, exc, result, response, fs, extractCalls,
      unlinkCalls, fetched, touched>>

locals == <<max_pages, dpi, tmp_path, should_delete_tmp, source>>

history == <<extractCalls, unlinkCalls, fetched, touched>>

request == <<hasIsRelativeTo, endpoint, req, doc>>

NoResponse == [status |-> 0, body |-> [none |-> TRUE]]

Init ==
    /\ hasIsRelativeTo \in BOOLEAN
    /\ pc = "idle"
    /\ endpoint = "none"
    /\ req = NoRequest
    /\ doc = <<>>
    /\ max_pages = 0
    /\ dpi = 0
    /\ tmp_path = None
    /\ should_delete_tmp = FALSE
    /\ source = None
    /\ exc = None
    /\ result = NoResult
    /\ response = NoResponse
    /\ fs = LocalFiles
    /\ extractCalls = <<>>
    /\ unlinkCalls = <<>>
    /\ fetched = <<>>
    /\ touched = {}

\* a request arrives at an idle worker
Receive(e, r, d) ==
    /\ pc' = IF e = "pdf" THEN "pdf_params" ELSE "img_validate"
    /\ endpoint' = e
    /\ req' = r
    /\ doc' = d
    /\ UNCHANGED <<hasIsRelativeTo, locals, exc, result, response, fs, history>>

ReceivePdf ==
    /\ pc = "idle"
    /\ \E r \in PdfRequests, d \in {PlainDoc(1), PlainDoc(2)} : Receive("pdf", r, d)

ReceiveImage ==
    /\ pc = "idle"
    /\ \E r \in ImageRequests : Receive("image", r, PlainDoc(1))

\* one well-formed source, integer parameters; the documents whose pages differ
\* come by pdf_path with the default dpi
ReceivePdfPages ==
    /\ pc = "idle"
    /\ \E r \in PagesRequests, d \in Docs \cup PlainDocs :
        /\ d \in PlainDocs \/ (r.pdf_path # None /\ r.dpi = RawMissing)
        /\ Receive("pdf", r, d)

\* return jsonify(body), status
Respond(status, body) ==
    /\ response' = [status |-> status, body |-> body]
    /\ pc' = "done"

\* an exception leaves the try block of the handler
Raise(message, handler) ==
    /\ exc' = Some(message)
    /\ pc' = handler

\* os.unlink(path) inside try/except Exception: pass
Unlink(path) ==
    /\ unlinkCalls' = Append(unlinkCalls, path)
    /\ fs' = fs \ {path}

(************************ ocr_pdf ******************************************)

\* lines 194-203: the payload's max_pages and dpi, parsed and capped
PdfParams ==
    /\ pc = "pdf_params"
    /\ LET mp == IntParam(req.max_pages, DEFAULT_MAX_PAGES)
           d  == IntParam(req.dpi, DEFAULT_DPI)
       IN  IF mp.ok /\ d.ok
           THEN /\ max_pages' = ClampMaxPages(mp.v)
                /\ dpi' = ClampDpi(d.v)
                /\ pc' = "pdf_source"
                /\ UNCHANGED exc
           ELSE /\ Raise("invalid literal for int()", "pdf_except")
                /\ UNCHANGED <<max_pages, dpi>>
    /\ UNCHANGED <<request, tmp_path, should_delete_tmp, source, result,
                   response, fs, history>>

\* a file part named 'file' whose filename is not empty
HasNamedFile(r) == r.file # None /\ The(r.file) # <<>>

\* key in payload and payload[key]
Truthy(field) == field # None /\ The(field) # <<>>

\* a variant: the three inputs looked at in the opposite order
SourceModePathFirst(r) ==
    IF Truthy(r.pdf_path) THEN "path"
    ELSE IF Truthy(r.file_url) THEN "url"
    ELSE IF HasNamedFile(r) THEN "upload"
    ELSE "none"

\* the if / elif / elif / else of lines 209, 222, 244, 264
SourceMode(r) ==
    IF HasNamedFile(r) THEN "upload"
    ELSE IF Truthy(r.file_url) THEN "url"
    ELSE IF Truthy(r.pdf_path) THEN "path"
    ELSE "none"

\* a variant: should_delete_tmp set whatever the source
ShouldDeleteAlways(mode) == TRUE

\* should_delete_tmp as lines 218, 240 and 261 set it
ShouldDeleteTmp(mode) == mode \in {"upload", "url"}

\* lines 215-219 and 237-241: the temporary file is created, then filled; the
\* three locals are set only after the file is filled
StageTmp(filled, mode, message) ==
    /\ fs' = fs \cup {TmpPdf}
    /\ IF filled
       THEN /\ tmp_path' = Some(TmpPdf)
            /\ should_delete_tmp' = ShouldDeleteTmp(mode)
            /\ source' = Some(mode)
            /\ pc' = "pdf_extract"
            /\ UNCHANGED exc
       ELSE /\ Raise(message, "pdf_except")
            /\ UNCHANGED <<tmp_path, should_delete_tmp, source>>
    /\ UNCHANGED response

\* lines 209-219: the uploaded file
PdfUpload ==
    /\ pc = "pdf_source"
    /\ SourceMode(req) = "upload"
    /\ touched' = touched \cup {"file"}
    /\ IF ~IsPdfFilename(The(req.file))
       THEN /\ Respond(400, [success |-> FALSE, error |-> "File must be a PDF"])
            /\ UNCHANGED <<tmp_path, should_delete_tmp, source, exc, fs>>
       ELSE \E saved \in BOOLEAN : StageTmp(saved, "upload", "file.save raised")
    /\ UNCHANGED <<request, max_pages, dpi, result, extractCalls, unlinkCalls,
                   fetched>>

\* what requests.get does: it raises, or answers with a status and a
\* Content-Type that names pdf or does not
GetOutcomes ==
    {[raised |-> TRUE, status |-> 0, pdfType |-> FALSE]} \cup
    [raised : {FALSE}, status : {200, 404}, pdfType : BOOLEAN]

\* lines 222-241: the file behind file_url
PdfUrl ==
    /\ pc = "pdf_source"
    /\ SourceMode(req) = "url"
    /\ touched' = touched \cup {"file_url"}
    /\ LET url == Strip(The(req.file_url))
       IN  IF ~is_http_url(url)
           THEN /\ Respond(400, [success |-> FALSE,
                                 error |-> "file_url must be http/https"])
                /\ UNCHANGED <<tmp_path, should_delete_tmp, source, exc, fs,
                               fetched>>
           ELSE \E r \in GetOutcomes :
                /\ fetched' = Append(fetched, url)
                /\ IF r.raised
                   THEN /\ Raise("requests.get raised", "pdf_except")
                        /\ UNCHANGED <<tmp_path, should_delete_tmp, source,
                                       response, fs>>
                   ELSE IF r.status # 200
                   THEN /\ Respond(400, [success |-> FALSE,
                                         error |-> "Failed to fetch file_url (HTTP 404)"])
                        /\ UNCHANGED <<tmp_path, should_delete_tmp, source, exc, fs>>
                   ELSE IF ~r.pdfType /\ ~EndsWith(Lower(url), DOT_PDF)
                   THEN /\ Respond(400, [success |-> FALSE,
                                         error |-> "URL does not appear to be a PDF"])
                        /\ UNCHANGED <<tmp_path, should_delete_tmp, source, exc, fs>>
                   ELSE \E written \in BOOLEAN :
                            StageTmp(written, "url", "tmp_file.write raised")
    /\ UNCHANGED <<request, max_pages, dpi, result, extractCalls, unlinkCalls>>

\* lines 244-262: the file at pdf_path
PdfPath ==
    /\ pc = "pdf_source"
    /\ SourceMode(req) = "path"
    /\ touched' = touched \cup {"pdf_path"}
    /\ LET user_path == UserPath(The(req.pdf_path))
       IN  IF Lower(Suffix(user_path)) # DOT_PDF
           THEN /\ Respond(400, [success |-> FALSE,
                                 error |-> "pdf_path must point to a .pdf file"])
                /\ UNCHANGED <<tmp_path, should_delete_tmp, source>>
           ELSE IF ~is_safe_path(SAFE_BASE_DIR, user_path, hasIsRelativeTo)
           THEN /\ Respond(400, [success |-> FALSE,
                                 error |-> "pdf_path is outside the allowed directory"])
                /\ UNCHANGED <<tmp_path, should_delete_tmp, source>>
           ELSE IF ~Exists(user_path, fs)
           THEN /\ Respond(400, [success |-> FALSE, error |-> "pdf_path not found: <name>"])
                /\ UNCHANGED <<tmp_path, should_delete_tmp, source>>
           ELSE /\ tmp_path' = Some(user_path)
                /\ should_delete_tmp' = ShouldDeleteTmp("path")
                /\ source' = Some("path")
                /\ pc' = "pdf_extract"
                /\ UNCHANGED response
    /\ UNCHANGED <<request, max_pages, dpi, exc, result, fs, extractCalls,
                   unlinkCalls, fetched>>

NO_INPUT == "No input provided. Use multipart \"file\", or \"file_url\", or \"pdf_path\"."

\* lines 264-268: none of the three
PdfNoInput ==
    /\ pc = "pdf_source"
    /\ SourceMode(req) = "none"
    /\ Respond(400, [success |-> FALSE, error |-> NO_INPUT])
    /\ UNCHANGED <<request, locals, exc, result, fs, history>>

\* lines 271-272: result = ocr_instance.pdf_to_text(tmp_path, max_pages, dpi)
PdfExtract ==
    /\ pc = "pdf_extract"
    /\ \E renderOk \in BOOLEAN, ocrOk \in BOOLEAN :
           result' = pdf_to_text(doc, max_pages, renderOk, ocrOk)
    /\ extractCalls' = Append(extractCalls,
           [path |-> Resolve(The(tmp_path)), max_pages |-> max_pages, dpi |-> dpi])
    /\ pc' = "pdf_cleanup"
    /\ UNCHANGED <<request, locals, exc, response, fs, unlinkCalls, fetched,
                   touched>>

\* lines 275-279: the temporary file is removed
PdfCleanup ==
    /\ pc = "pdf_cleanup"
    /\ IF should_delete_tmp /\ tmp_path # None
       THEN Unlink(The(tmp_path))
       ELSE UNCHANGED <<fs, unlinkCalls>>
    /\ pc' = "pdf_respond"
    /\ UNCHANGED <<request, locals, exc, result, response, extractCalls,
                   fetched, touched>>

\* lines 281-291: the response; jsonify raises, or returns
PdfRespond ==
    /\ pc = "pdf_respond"
    /\ \E built \in BOOLEAN :
        IF ~built
        THEN /\ Raise("jsonify raised", "pdf_except")
             /\ UNCHANGED response
        ELSE /\ UNCHANGED exc
             /\ IF result.success
                THEN Respond(200,
                        [success |-> TRUE, source |-> The(source),
                         text |-> The(result.text),
                         num_pages |-> result.num_pages,
                         was_truncated |-> result.was_truncated,
                         character_count |-> Len(The(result.text))])
                ELSE Respond(500, [success |-> FALSE, error |-> The(result.error)])
    /\ UNCHANGED <<request, locals, result, fs, history>>

\* lines 293-299: except Exception as e
PdfExcept ==
    /\ pc = "pdf_except"
    /\ IF should_delete_tmp /\ tmp_path # None
       THEN Unlink(The(tmp_path))
       ELSE UNCHANGED <<fs, unlinkCalls>>
    /\ Respond(500, [success |-> FALSE, error |-> The(exc)])
    /\ UNCHANGED <<request, locals, exc, result, extractCalls, fetched, touched>>

(************************ ocr_image ****************************************)

\* lines 305-314: the file part is there, is named, and has an allowed extension
ImgValidate ==
    /\ pc = "img_validate"
    /\ IF req.file = None
       THEN /\ Respond(400, [error |-> "No file provided"])
            /\ UNCHANGED touched
       ELSE /\ touched' = touched \cup {"file"}
            /\ IF The(req.file) = <<>>
               THEN Respond(400, [error |-> "No file selected"])
               ELSE IF ~allowed_file(The(req.file))
               THEN Respond(400,
                        [error |-> "Invalid file type. Allowed: PNG, JPG, JPEG"])
               ELSE /\ pc' = "img_stage"
                    /\ UNCHANGED response
    /\ UNCHANGED <<request, locals, exc, result, fs, extractCalls, unlinkCalls,
                   fetched>>

\* lines 317-319: the temporary file is created, then the upload saved into it
ImgStage ==
    /\ pc = "img_stage"
    /\ fs' = fs \cup {TmpImage}
    /\ \E saved \in BOOLEAN :
        IF saved
        THEN /\ tmp_path' = Some(TmpImage)
             /\ pc' = "img_extract"
             /\ UNCHANGED exc
        ELSE /\ Raise("file.save raised", "img_except")
             /\ UNCHANGED tmp_path
    /\ UNCHANGED <<request, max_pages, dpi, should_delete_tmp, source, result,
                   response, history>>

\* lines 321-323: result = ocr_instance.image_to_text(tmp_path)
ImgExtract ==
    /\ pc = "img_extract"
    /\ \E openOk \in BOOLEAN, ocrOk \in BOOLEAN :
           result' = image_to_text(doc, openOk, ocrOk)
    /\ extractCalls' = Append(extractCalls,
           [path |-> The(tmp_path), max_pages |-> 0, dpi |-> 0])
    /\ pc' = "img_cleanup"
    /\ UNCHANGED <<request, locals, exc, response, fs, unlinkCalls, fetched,
                   touched>>

\* lines 325-328: os.unlink(tmp_path)
ImgCleanup ==
    /\ pc = "img_cleanup"
    /\ Unlink(The(tmp_path))
    /\ pc' = "img_respond"
    /\ UNCHANGED <<request, locals, exc, result, response, extractCalls,
                   fetched, touched>>

\* lines 330-337: the response; jsonify raises, or returns
ImgRespond ==
    /\ pc = "img_respond"
    /\ \E built \in BOOLEAN :
        IF ~built
        THEN /\ Raise("jsonify raised", "img_except")
             /\ UNCHANGED response
        ELSE /\ UNCHANGED exc
             /\ IF result.success
                THEN Respond(200,
                        [success |-> TRUE, text |-> The(result.text),
                         character_count |-> Len(The(result.text))])
                ELSE Respond(500, [success |-> FALSE, error |-> The(result.error)])
    /\ UNCHANGED <<request, locals, result, fs, history>>

\* lines 339-340: except Exception as e
ImgExcept ==
    /\ pc = "img_except"
    /\ Respond(500, [success |-> FALSE, error |-> The(exc)])
    /\ UNCHANGED <<request, locals, exc, result, fs, history>>

(************************ specifications ***********************************)

PdfSteps ==
    \/ PdfParams
    \/ PdfUpload
    \/ PdfUrl
    \/ PdfPath
    \/ PdfNoInput
    \/ PdfExtract
    \/ PdfCleanup
    \/ PdfRespond
    \/ PdfExcept

ImageSteps ==
    \/ ImgValidate
    \/ ImgStage
    \/ ImgExtract
    \/ ImgCleanup
    \/ ImgRespond
    \/ ImgExcept

Next == ReceivePdf \/ ReceiveImage \/ PdfSteps \/ ImageSteps

\* every source the two endpoints take, a few parameter values
Spec == Init /\ [][Next]_vars

NextPages == ReceivePdfPages \/ PdfSteps

\* /ocr/pdf over the integer parameters and the documents
SpecPages == Init /\ [][NextPages]_vars

(***************************************************************************)
(* Properties                                                              *)
(***************************************************************************)

Done == pc = "done"

Body == response.body

Status == response.status

Failed(status, message) ==
    /\ Status = status
    /\ "error" \in DOMAIN Body
    /\ Body.error = message

\* what the request carries, read off the request itself
FilePresent == req.file # None /\ The(req.file) # <<>>

UrlPresent == req.file_url # None /\ The(req.file_url) # <<>>

PathPresent == req.pdf_path # None /\ The(req.pdf_path) # <<>>

\* max_pages and dpi as the client meant them (integers or absent)
RequestedMaxPages ==
    IF req.max_pages.kind = "missing" THEN 10 ELSE req.max_pages.v

RequestedDpi == IF req.dpi.kind = "missing" THEN 200 ELSE req.dpi.v

\* C1: once the response of POST /ocr/pdf or POST /ocr/image is returned, no
\* temporary file the handler created is left, whatever each step did.
C1_NoTmpFileAfterResponse == Done => fs \cap TmpFiles = {}

\* C2: a request to /ocr/pdf that names only pdf_path never has os.unlink
\* called, and every file that existed before it still exists, at every point
\* of the handler and on every exit.
C2_LocalPathNeverDeleted ==
    (endpoint = "pdf" /\ ~FilePresent /\ ~UrlPresent /\ PathPresent)
        => unlinkCalls = <<>> /\ LocalFiles \subseteq fs

C2_Witness ==
    /\ Done /\ endpoint = "pdf" /\ ~FilePresent /\ ~UrlPresent /\ PathPresent
    /\ Status = 200 /\ Body.source = "path"
    /\ Len(extractCalls) = 1
    /\ extractCalls[1].path = <<STR_srv, STR_app, STR_a_pdf>>

\* the one source the priority Upload > RemoteURL > LocalPath selects
PrioritySource ==
    IF FilePresent THEN "upload"
    ELSE IF UrlPresent THEN "url"
    ELSE IF PathPresent THEN "path"
    ELSE "none"

InputOf(mode) ==
    CASE mode = "upload" -> {"file"}
      [] mode = "url"    -> {"file_url"}
      [] mode = "path"   -> {"pdf_path"}
      [] mode = "none"   -> {}

ErrorsOf(mode) ==
    CASE mode = "upload" -> {"File must be a PDF"}
      [] mode = "url"    -> {"file_url must be http/https",
                             "Failed to fetch file_url (HTTP 404)",
                             "URL does not appear to be a PDF"}
      [] mode = "path"   -> {"pdf_path must point to a .pdf file",
                             "pdf_path is outside the allowed directory",
                             "pdf_path not found: <name>"}
      [] mode = "none"   -> {NO_INPUT}

C4_OutsideRootRejected ==
    LET user_path == UserPath(The(req.pdf_path))
    IN  (/\ Done /\ endpoint = "pdf" /\ touched = {"pdf_path"}
         /\ Lower(Suffix(user_path)) = DOT_PDF
         /\ ~IsRelativeTo(Resolve(user_path), SAFE_BASE_DIR))
            => /\ Failed(400, "pdf_path is outside the allowed directory")
               /\ extractCalls = <<>>

\* C5: every failure response of the two endpoints carries success = false
\* and an error string.
C5_FailureCarriesFlagAndError ==
    Done /\ Status # 200 =>
        /\ "success" \in DOMAIN Body
        /\ Body.success = FALSE
        /\ "error" \in DOMAIN Body

\* a value int() does not take for an integer
NotAnInteger(raw) ==
    \/ raw.kind \in {"float", "null"}
    \/ raw.kind = "str" /\ \E i \in DOMAIN Strip(raw.s) :
                               Strip(raw.s)[i] \notin Digits \cup {"-", "+"}

\* C6: on /ocr/pdf a max_pages or dpi that is not an integer ends in a 4xx
\* response whatever else the request carries, and an absent one counts as
\* 10 and 200.
C6_BadParameterIs400 ==
    endpoint = "pdf" =>
        /\ Done /\ (NotAnInteger(req.max_pages) \/ NotAnInteger(req.dpi))
               => Status \in 400..499
        /\ \A i \in DOMAIN extractCalls :
               /\ req.max_pages.kind = "missing" => extractCalls[i].max_pages = 10
               /\ req.dpi.kind = "missing" => extractCalls[i].dpi = 200

\* the occurrences str.count(pat) counts: left to right, not overlapping
RECURSIVE CountOcc(_, _)
CountOcc(s, pat) ==
    IF Len(s) < Len(pat) THEN 0
    ELSE IF StartsWith(s, pat)
         THEN 1 + CountOcc(SubSeq(s, Len(pat) + 1, Len(s)), pat)
         ELSE CountOcc(Tail(s), pat)

\* the places at which pat occurs in s, overlapping ones included
Occurrences(s, pat) ==
    {i \in 1..(Len(s) - Len(pat) + 1) : SubSeq(s, i, i + Len(pat) - 1) = pat}

\* "--- Page Break ---", the line at the middle of the separator
PAGE_BREAK_LINE == SubSeq(PAGE_BREAK, 3, Len(PAGE_BREAK) - 2)

\* where page i starts in the text of the pages joined by the separator
RECURSIVE PageOffset(_, _)
PageOffset(pages, i) ==
    IF i = 1 THEN 0
    ELSE PageOffset(pages, i - 1) + Len(pages[i - 1]) + Len(PAGE_BREAK)

\* text is the pages in their order with the separator between neighbours
IsJoinOf(text, pages) ==
    /\ Len(text) = PageOffset(pages, Len(pages)) + Len(pages[Len(pages)])
    /\ \A i \in DOMAIN pages :
           SubSeq(text, PageOffset(pages, i) + 1,
                  PageOffset(pages, i) + Len(pages[i])) = pages[i]
    /\ \A i \in 2..Len(pages) :
           SubSeq(text, PageOffset(pages, i) - Len(PAGE_BREAK) + 1,
                  PageOffset(pages, i)) = PAGE_BREAK

\* C7 as stated: a success for a document of k pages with requested
\* max_pages >= k reports num_pages = k, was_truncated = false and a text
\* with exactly k-1 separators.
C7_AllPagesNotTruncated ==
    (/\ Done /\ Status = 200 /\ Len(doc) >= 1 /\ RequestedMaxPages >= Len(doc))
        => /\ Body.num_pages = Len(doc)
           /\ Body.was_truncated = FALSE
           /\ CountOcc(Body.text, PAGE_BREAK) = Len(doc) - 1

\* C7 amended: a success for a document of k pages with min(max_pages, 20) > k
\* reports num_pages = k and was_truncated = false; the text is the k page
\* texts in page order with the separator between neighbours, and holds
\* exactly k-1 separators when no page text holds the page-break line itself.
C7_BelowCapNotTruncated ==
    (/\ Done /\ Status = 200 /\ Len(doc) >= 1
     /\ RequestedMaxPages > Len(doc) /\ 20 > Len(doc))
        => /\ Body.num_pages = Len(doc)
           /\ Body.was_truncated = FALSE
           /\ IsJoinOf(Body.text, doc)
           /\ (\A i \in DOMAIN doc : Occurrences(doc[i], PAGE_BREAK_LINE) = {})
                  => /\ CountOcc(Body.text, PAGE_BREAK) = Len(doc) - 1
                     /\ Cardinality(Occurrences(Body.text, PAGE_BREAK)) = Len(doc) - 1

C7_Witness ==
    /\ Done /\ Status = 200 /\ Len(doc) = 3 /\ RequestedMaxPages = 4
    /\ doc[2] = <<>>
    /\ Body.num_pages = 3 /\ Body.was_truncated = FALSE
    /\ CountOcc(Body.text, PAGE_BREAK) = 2

\* the max_pages the extractor was called with
PassedMaxPages == extractCalls[1].max_pages

\* C8 as stated: a successful extraction has was_truncated = (pages rendered
\* >= max_pages passed); m < k pages asked of a k-page document gives
\* num_pages = m and was_truncated; so does m = k; a failed extraction has
\* num_pages = 0 and was_truncated = false.
C8_TruncatedIffAtCap ==
    result # NoResult /\ endpoint = "pdf" =>
        IF result.success
        THEN /\ result.was_truncated = (result.num_pages >= PassedMaxPages)
             /\ PassedMaxPages < Len(doc) =>
                    result.num_pages = PassedMaxPages /\ result.was_truncated
             /\ PassedMaxPages = Len(doc) =>
                    result.num_pages = Len(doc) /\ result.was_truncated
        ELSE result.num_pages = 0 /\ ~result.was_truncated

\* C8 amended: the same, with num_pages = m for 0 <= m < k only; below 0 no
\* page is rendered, num_pages = 0 and was_truncated = true.
C8_TruncatedIffAtCapFromZero ==
    result # NoResult /\ endpoint = "pdf" =>
        IF result.success
        THEN /\ result.was_truncated = (result.num_pages >= PassedMaxPages)
             /\ 0 <= PassedMaxPages /\ PassedMaxPages < Len(doc) =>
                    result.num_pages = PassedMaxPages /\ result.was_truncated
             /\ PassedMaxPages < 0 =>
                    result.num_pages = 0 /\ result.was_truncated
             /\ PassedMaxPages = Len(doc) =>
                    result.num_pages = Len(doc) /\ result.was_truncated
             /\ PassedMaxPages > Len(doc) =>
                    result.num_pages = Len(doc) /\ ~result.was_truncated
        ELSE result.num_pages = 0 /\ ~result.was_truncated

C8_Witness ==
    /\ result # NoResult /\ endpoint = "pdf" /\ result.success
    /\ Len(doc) = 3 /\ PassedMaxPages = 3
    /\ result.num_pages = 3 /\ result.was_truncated

SourceErrors ==
    ErrorsOf("upload") \cup ErrorsOf("url") \cup ErrorsOf("path")
        \cup ErrorsOf("none")

\* C9: for integer max_pages and dpi the extractor is called with
\* min(max_pages, 20) and min(dpi, 300), values of 0 and below unchanged, and
\* no request is turned down for its max_pages or dpi: int() does not raise
\* and a 400 carries an error of the source.
C9_ExtractorGetsCappedValues ==
    /\ \A i \in DOMAIN extractCalls :
           /\ extractCalls[i].max_pages =
                  (IF RequestedMaxPages > 20 THEN 20 ELSE RequestedMaxPages)
           /\ extractCalls[i].dpi =
                  (IF RequestedDpi > 300 THEN 300 ELSE RequestedDpi)
           /\ extractCalls[i].max_pages <= 20
           /\ extractCalls[i].dpi <= 300
    /\ exc # Some("invalid literal for int()")
    /\ Done /\ Status = 400 => Body.error \in SourceErrors

C9_Witness ==
    /\ Done /\ Status = 200 /\ Len(extractCalls) = 1
    /\ RequestedMaxPages = 22 /\ extractCalls[1].max_pages = 20
    /\ RequestedDpi = 600 /\ extractCalls[1].dpi = 300
    /\ Body.num_pages = 20

\* the extension of an uploaded filename: what follows its last '.'
UploadExtension ==
    LET name == The(req.file)
    IN  IF Contains(name, ".")
        THEN Some(Lower(SubSeq(name, LastIndexOf(name, ".") + 1, Len(name))))
        ELSE None

\* C10: /ocr/image takes a named upload only when its extension, in any case,
\* is png, jpg or jpeg; for any other the response is 400 with the
\* invalid-file-type error, no temporary file is created and no OCR is run.
C10_ImageExtensionsOnly ==
    (/\ endpoint = "image" /\ FilePresent
     /\ UploadExtension \cap {STR_png, STR_jpg, STR_jpeg} = {})
        => /\ fs \cap TmpFiles = {}
           /\ extractCalls = <<>>
           /\ Done => Failed(400, "Invalid file type. Allowed: PNG, JPG, JPEG")

=============================================================================
